---- MODULE Spec2Model ----
(***************************************************************************)
(* Model of docs/source/user_guide/pipelines.ipynb: the example custom     *)
(* transformer MyDropNullColumns (constructor, fit, transform) and the     *)
(* pipeline classes the notebook declares (component graphs, custom        *)
(* hyperparameters, constructor parameters, fit order).                    *)
(*                                                                         *)
(* Numbers: a threshold is held in hundredths (95 is 0.95, 100 is 1.0).    *)
(* The mean of a boolean column of at least one row is the exact fraction  *)
(* nulls/rows, and a comparison of that mean with a threshold t is made on *)
(* integers: nulls/rows >= t/100 iff 100*nulls >= t*rows.  For the row     *)
(* counts and thresholds used here the float quotient and the float        *)
(* literal are equal exactly when the rationals are, so the integer        *)
(* comparison agrees with the float comparison of the code.  The mean of a *)
(* column without rows is NaN (den = 0 here), and every comparison with    *)
(* NaN is False.                                                           *)
(* A data frame is an ordered family of columns all of the same length,    *)
(* zero rows included; a cell is NaN or a value.                           *)
(***************************************************************************)
EXTENDS Integers, Sequences, FiniteSets, TLC

VARIABLES
    parameters,    \* self.parameters of the MyDropNullColumns instance
    cols_to_drop,  \* self._cols_to_drop of that instance
    call,          \* the last call made on the component, its arguments and outcome
    fitX,          \* the frame given to the most recent fit of the instance
    other,         \* a second MyDropNullColumns instance: parameters and _cols_to_drop
    pipeline,      \* the pipeline instance: its class and its parameters dictionary
    fitted         \* the names of the pipeline's components fitted so far, in fit order

component == <<parameters, cols_to_drop, call, fitX>>
vars == <<parameters, cols_to_drop, call, fitX, other, pipeline, fitted>>

(***************************************************************************)
(* Bounds and inputs                                                       *)
(***************************************************************************)
MaxRows == 2

NaN == "NaN"
Cells == {NaN, "v"}

\* column labels of the data frames, in frame order
ColumnIndex == <<1, 2>>
Columns == {ColumnIndex[i] : i \in DOMAIN ColumnIndex}

Frames(r) == [Columns -> [1..r -> Cells]]
AllFrames == UNION {Frames(r) : r \in 0..MaxRows}

\* thresholds handed to the constructor, in hundredths; -1 and 101 are out of range
ThresholdInputs == {-1, 0, 25, 50, 75, 95, 100, 101}

\* the value of self._cols_to_drop before any fit; 0 is no column label
None == <<0>>
NoFrame == <<>>

(***************************************************************************)
(* MyDropNullColumns                                                       *)
(***************************************************************************)
\* def __init__(self, pct_null_threshold=1.0, ...)
DefaultPctNullThreshold == 100
\* docstring: "Defaults to 0.95."
DocumentedDefault == 95

\* if pct_null_threshold < 0 or pct_null_threshold > 1: raise ValueError
OutOfRangeInclusive(pct_null_threshold) ==
    pct_null_threshold <= 0 \/ pct_null_threshold >= 100

OutOfRange(pct_null_threshold) ==
    pct_null_threshold < 0 \/ pct_null_threshold > 100

\* X.isnull()
isnull(X) == [c \in DOMAIN X |-> [i \in DOMAIN X[c] |-> X[c][i] = NaN]]

\* DataFrame.mean() of a boolean frame: per column the fraction num/den of
\* TRUE; den = 0 stands for the NaN that the mean of an empty column is
mean(B) ==
    [c \in DOMAIN B |->
        [num |-> Cardinality({i \in DOMAIN B[c] : B[c][i]}), den |-> Len(B[c])]]

percent_null(X) == mean(isnull(X))

\* m > t/100 and m >= t/100 on floats: False when m is NaN
gt(m, t) == m.den > 0 /\ 100 * m.num > t * m.den
ge(m, t) == m.den > 0 /\ 100 * m.num >= t * m.den

\* the branches of fit's selection, each a mutation of null_cols
null_cols_no_zero_branch(X, pct_null_threshold) ==
    SelectSeq(ColumnIndex, LAMBDA c : ge(percent_null(X)[c], pct_null_threshold))

null_cols_strict(X, pct_null_threshold) ==
    IF pct_null_threshold = 0
    THEN SelectSeq(ColumnIndex, LAMBDA c : gt(percent_null(X)[c], 0))
    ELSE SelectSeq(ColumnIndex, LAMBDA c : gt(percent_null(X)[c], pct_null_threshold))

null_cols_flipped(X, pct_null_threshold) ==
    IF pct_null_threshold = 0
    THEN SelectSeq(ColumnIndex, LAMBDA c : gt(percent_null(X)[c], 0))
    ELSE SelectSeq(ColumnIndex, LAMBDA c : /\ percent_null(X)[c].den > 0
                                 /\ 100 * percent_null(X)[c].num
                                       <= pct_null_threshold * percent_null(X)[c].den)

\* fit: the index of percent_null[percent_null > 0] when the threshold is 0.0,
\* of percent_null[percent_null >= pct_null_threshold] otherwise, as a list
null_cols(X, pct_null_threshold) ==
    IF pct_null_threshold = 0
    THEN SelectSeq(ColumnIndex, LAMBDA c : gt(percent_null(X)[c], 0))
    ELSE SelectSeq(ColumnIndex, LAMBDA c : ge(percent_null(X)[c], pct_null_threshold))

Range(s) == {s[i] : i \in DOMAIN s}

\* X.drop(columns=cols): the frame without the listed columns
drop(X, cols) == [c \in (DOMAIN X) \ Range(cols) |-> X[c]]

\* the constructor body; defaulted tells that no pct_null_threshold was passed
init(pct_null_threshold, defaulted) ==
    IF OutOfRange(pct_null_threshold)
    THEN /\ call' = [op |-> "__init__", pct_null_threshold |-> pct_null_threshold,
                     defaulted |-> defaulted, raised |-> "ValueError"]
         /\ UNCHANGED <<parameters, cols_to_drop, fitX>>
    ELSE /\ parameters' = [pct_null_threshold |-> pct_null_threshold]
         /\ cols_to_drop' = None
         /\ fitX' = NoFrame
         /\ call' = [op |-> "__init__", pct_null_threshold |-> pct_null_threshold,
                     defaulted |-> defaulted, raised |-> ""]

\* MyDropNullColumns(pct_null_threshold=t)
Construct(t) == init(t, FALSE)

\* MyDropNullColumns()
ConstructDefault == init(DefaultPctNullThreshold, TRUE)

fit_appending(X) ==
    /\ cols_to_drop' =
          IF cols_to_drop = None
          THEN null_cols(X, parameters.pct_null_threshold)
          ELSE SelectSeq(ColumnIndex,
                  LAMBDA c : c \in Range(cols_to_drop)
                                 \cup Range(null_cols(X, parameters.pct_null_threshold)))
    /\ fitX' = X
    /\ call' = [op |-> "fit", X |-> X]
    /\ UNCHANGED parameters

\* fit(self, X, y=None)
fit(X) ==
    /\ cols_to_drop' = null_cols(X, parameters.pct_null_threshold)
    /\ fitX' = X
    /\ call' = [op |-> "fit", X |-> X]
    /\ UNCHANGED parameters

\* transform(self, X, y=None); with self._cols_to_drop still None the drop raises
transform(X) ==
    /\ call' = IF cols_to_drop = None
               THEN [op |-> "transform", X |-> X, raised |-> "ValueError"]
               ELSE [op |-> "transform", X |-> X, raised |-> "",
                     result |-> drop(X, cols_to_drop)]
    /\ UNCHANGED <<parameters, cols_to_drop, fitX>>

(***************************************************************************)
(* Pipeline classes of the notebook                                        *)
(***************************************************************************)
Nonlinear == "CustomNonlinearMulticlassClassificationPipeline"

\* the pipeline classes the notebook defines; CustomPipeline is defined four
\* times, told apart here by the notebook line of the class statement
PipelineClasses ==
    {"CustomMulticlassClassificationPipeline", Nonlinear,
     "CustomComponentMulticlassClassificationPipeline",
     "CustomPipeline@134", "CustomPipeline@158", "CustomPipeline@164",
     "CustomPipeline@442"}

\* name attribute of the custom component classes
NewTransformer == "New Transformer"
MyDropNullColumns == "My Drop Null Columns Transformer"

\* classes deriving from Transformer in the notebook
CustomTransformers == {NewTransformer, MyDropNullColumns}

\* components of the library by kind
LibraryTransformers ==
    {"Imputer", "One Hot Encoder", "Standard Scaler", "DateTime Featurization Component"}
LibraryEstimators ==
    {"Random Forest Classifier", "Elastic Net Classifier",
     "Logistic Regression Classifier"}

Transformers == CustomTransformers \cup LibraryTransformers
Estimators == LibraryEstimators

nonlinear_graph_missing_parent ==
    [k \in {"Imputer", "Encoder", "Random Forest Clf", "Elastic Net Clf",
            "Final Estimator"} |->
        CASE k = "Imputer" -> <<"Imputer">>
          [] k = "Encoder" -> <<"One Hot Encoder", "Imputer">>
          [] k = "Random Forest Clf" -> <<"Random Forest Classifier", "Encoder">>
          [] k = "Elastic Net Clf" -> <<"Elastic Net Classifier", "Encoder">>
          [] k = "Final Estimator" ->
                <<"Logistic Regression Classifier", "Random Forest Clf">>]

\* component_graph of CustomNonlinearMulticlassClassificationPipeline: each key
\* maps to the component class followed by the component's parents
nonlinear_graph ==
    [k \in {"Imputer", "Encoder", "Random Forest Clf", "Elastic Net Clf",
            "Final Estimator"} |->
        CASE k = "Imputer" -> <<"Imputer">>
          [] k = "Encoder" -> <<"One Hot Encoder", "Imputer">>
          [] k = "Random Forest Clf" -> <<"Random Forest Classifier", "Encoder">>
          [] k = "Elastic Net Clf" -> <<"Elastic Net Classifier", "Encoder">>
          [] k = "Final Estimator" ->
                <<"Logistic Regression Classifier", "Random Forest Clf",
                  "Elastic Net Clf">>]

component_graph_estimator_first(cls) ==
    CASE cls = "CustomMulticlassClassificationPipeline" ->
            <<"Imputer", "Random Forest Classifier">>
      [] cls = "CustomComponentMulticlassClassificationPipeline" ->
            <<NewTransformer, "Random Forest Classifier">>
      [] cls = "CustomPipeline@134" ->
            <<"Imputer", "One Hot Encoder", "Logistic Regression Classifier">>
      [] cls \in {"CustomPipeline@158", "CustomPipeline@164"} ->
            <<"Imputer", "One Hot Encoder", "Standard Scaler",
              "Logistic Regression Classifier">>
      [] cls = "CustomPipeline@442" ->
            <<"Imputer", "DateTime Featurization Component", "One Hot Encoder",
              "Random Forest Classifier", MyDropNullColumns>>

\* component_graph of the classes that give it as a list
component_graph(cls) ==
    CASE cls = "CustomMulticlassClassificationPipeline" ->
            <<"Imputer", "Random Forest Classifier">>
      [] cls = "CustomComponentMulticlassClassificationPipeline" ->
            <<NewTransformer, "Random Forest Classifier">>
      [] cls = "CustomPipeline@134" ->
            <<"Imputer", "One Hot Encoder", "Logistic Regression Classifier">>
      [] cls \in {"CustomPipeline@158", "CustomPipeline@164"} ->
            <<"Imputer", "One Hot Encoder", "Standard Scaler",
              "Logistic Regression Classifier">>
      [] cls = "CustomPipeline@442" ->
            <<"Imputer", MyDropNullColumns, "DateTime Featurization Component",
              "One Hot Encoder", "Random Forest Classifier">>

is_list(cls) == cls # Nonlinear

\* the names by which a pipeline of the class knows its components
component_names(cls) ==
    IF is_list(cls) THEN Range(component_graph(cls)) ELSE DOMAIN nonlinear_graph

\* parents of a component of the nonlinear graph: what follows the class
parents(k) ==
    IF k \in DOMAIN nonlinear_graph THEN Range(Tail(nonlinear_graph[k])) ELSE {}

\* a dictionary without entries
EmptyDict == <<>>

\* custom_hyperparameters of a class: component name -> hyperparameter names
custom_hyperparameters(cls) ==
    CASE cls = "CustomPipeline@164" ->
            [k \in {"Simple Imputer"} |-> {"impute_strategy", "another_hyperparameter"}]
      [] cls = "CustomPipeline@442" ->
            [k \in {"Imputer"} |-> {"numeric_impute_strategy"}]
      [] OTHER -> EmptyDict

\* the parameters dictionary of line 211: component name -> parameter names
parameters_211 ==
    [k \in {"Imputer", "Logistic Regression Classifier"} |->
        IF k = "Imputer"
        THEN {"categorical_impute_strategy", "numeric_impute_strategy"}
        ELSE {"penalty", "C"}]

\* the constructor calls: the notebook's own, and any class with an empty
\* dictionary ("If we want to use the defaults for each component, we can
\* simply pass in an empty dictionary")
PipelineCalls ==
    [cls : PipelineClasses, parameters : {EmptyDict}]
    \cup {[cls |-> "CustomPipeline@164", parameters |-> parameters_211],
          [cls |-> "CustomPipeline@442",
           parameters |-> [k \in {"Imputer"} |-> {"numeric_impute_strategy"}]]}

\* Pipeline(parameters): the components are instantiated, a component without
\* an entry in parameters with its defaults
PipelineConstruct(c) ==
    /\ pipeline' = c
    /\ fitted' = <<>>
    /\ IF is_list(c.cls) /\ MyDropNullColumns \in Range(component_graph(c.cls))
       THEN ConstructDefault
       ELSE UNCHANGED component
    /\ UNCHANGED other

Fitted == Range(fitted)

\* pipeline.fit, one component at a time: a list in list order, a dictionary
\* in an order that puts every component after its parents.  The custom
\* component is fitted on the frame that reaches it and then transforms it.
PipelineFitComponent(k) ==
    /\ k \notin Fitted
    /\ IF is_list(pipeline.cls)
       THEN /\ Len(fitted) < Len(component_graph(pipeline.cls))
            /\ k = component_graph(pipeline.cls)[Len(fitted) + 1]
       ELSE /\ k \in DOMAIN nonlinear_graph
            /\ parents(k) \subseteq Fitted
    /\ fitted' = Append(fitted, k)
    /\ IF k = MyDropNullColumns
       THEN \E X \in AllFrames :
               /\ cols_to_drop' = null_cols(X, parameters.pct_null_threshold)
               /\ fitX' = X
               /\ call' = [op |-> "transform", X |-> X, raised |-> "",
                           result |-> drop(X, cols_to_drop')]
               /\ UNCHANGED parameters
       ELSE UNCHANGED component
    /\ UNCHANGED <<pipeline, other>>

AllComponentNames ==
    UNION {component_names(cls) : cls \in PipelineClasses}

(***************************************************************************)
(* Two instances fitted on the same frame                                  *)
(***************************************************************************)
\* a second instance is constructed with threshold t
OtherConstruct(t) ==
    /\ ~OutOfRange(t)
    /\ other' = [parameters |-> [pct_null_threshold |-> t], cols_to_drop |-> None]

\* other.fit(X)
OtherFit(X) ==
    other' = [other EXCEPT
                 !.cols_to_drop = null_cols(X, other.parameters.pct_null_threshold)]

(***************************************************************************)
(* The component on its own: construction, fit and transform in any order  *)
(***************************************************************************)
Init ==
    /\ parameters = [pct_null_threshold |-> DefaultPctNullThreshold]
    /\ cols_to_drop = None
    /\ fitX = NoFrame
    /\ call = [op |-> "__init__", pct_null_threshold |-> DefaultPctNullThreshold,
               defaulted |-> TRUE, raised |-> ""]
    /\ other = [parameters |-> [pct_null_threshold |-> DefaultPctNullThreshold],
                cols_to_drop |-> None]
    /\ pipeline = [cls |-> "CustomMulticlassClassificationPipeline",
                   parameters |-> EmptyDict]
    /\ fitted = <<>>

Next ==
    \/ \E t \in ThresholdInputs :
          Construct(t) /\ UNCHANGED <<other, pipeline, fitted>>
    \/ ConstructDefault /\ UNCHANGED <<other, pipeline, fitted>>
    \/ \E X \in AllFrames : fit(X) /\ UNCHANGED <<other, pipeline, fitted>>
    \/ \E X \in AllFrames : transform(X) /\ UNCHANGED <<other, pipeline, fitted>>

Spec == Init /\ [][Next]_vars

(***************************************************************************)
(* Pipelines: construction and fit, component by component                 *)
(***************************************************************************)
NextPipeline ==
    \/ \E c \in PipelineCalls : PipelineConstruct(c)
    \/ \E k \in AllComponentNames : PipelineFitComponent(k)

SpecPipeline == Init /\ [][NextPipeline]_vars

(***************************************************************************)
(* Two instances with their own thresholds, fitted on the same frames      *)
(***************************************************************************)
NextTwo ==
    \/ \E t \in ThresholdInputs :
          Construct(t) /\ UNCHANGED <<other, pipeline, fitted>>
    \/ \E t \in ThresholdInputs :
          OtherConstruct(t) /\ UNCHANGED <<component, pipeline, fitted>>
    \/ \E X \in AllFrames : fit(X) /\ OtherFit(X) /\ UNCHANGED <<pipeline, fitted>>

SpecTwo == Init /\ [][NextTwo]_vars

(***************************************************************************)
(* Properties                                                              *)
(***************************************************************************)
\* the instance has been fitted since it was constructed
HasFit == fitX # NoFrame

Threshold == parameters.pct_null_threshold

Nulls(X, c) == Cardinality({i \in 1..Len(X[c]) : X[c][i] = NaN})
Rows(X, c) == Len(X[c])

\* columns of X that have a row and whose fraction of nulls is at least
\* t/100, or, for t = 0, above 0
AtLeast(X, t) ==
    {c \in Columns : /\ Rows(X, c) >= 1
                     /\ IF t = 0 THEN Nulls(X, c) > 0
                                 ELSE 100 * Nulls(X, c) >= t * Rows(X, c)}

\* columns of X whose fraction of nulls is strictly above t/100
Above(X, t) == {c \in Columns : 100 * Nulls(X, c) > t * Rows(X, c)}

Transformed == call.op = "transform" /\ call.raised = ""

\* C1: the constructor raises ValueError exactly for a threshold below 0 or
\* above 1; every threshold of [0, 1], 0 and 1 included, is accepted and stored.
C1_ThresholdRange ==
    call.op = "__init__" =>
        /\ (call.raised = "ValueError") <=>
              (call.pct_null_threshold < 0 \/ call.pct_null_threshold > 100)
        /\ call.raised = "" => /\ call.pct_null_threshold \in 0..100
                               /\ Threshold = call.pct_null_threshold
                               /\ cols_to_drop = None

C1_Witness ==
    call.op = "__init__" /\ call.raised = "ValueError" /\ call.pct_null_threshold = 101

\* C2 as stated: a column is selected by fit, and removed by transform, exactly
\* when its fraction of nulls in the fit data is strictly above the threshold.
C2_StrictlyAbove ==
    HasFit =>
        /\ Range(cols_to_drop) = Above(fitX, Threshold)
        /\ Transformed => DOMAIN call.result = Columns \ Above(fitX, Threshold)

\* C2 amended: a column is selected by fit, and removed by transform, exactly
\* when the fit data has at least one row and the column's fraction of nulls
\* in it is at least the threshold or, for the threshold 0.0, above 0.
C2_AtLeast ==
    HasFit =>
        /\ Range(cols_to_drop) = AtLeast(fitX, Threshold)
        /\ Transformed => DOMAIN call.result = Columns \ AtLeast(fitX, Threshold)

\* a column whose null fraction equals a threshold above 0 has been selected
\* and removed, next to a column that was kept
C2_Witness ==
    /\ HasFit /\ Transformed /\ Threshold = 50
    /\ \E c \in Columns : 100 * Nulls(fitX, c) = Threshold * Rows(fitX, c)
                          /\ c \notin DOMAIN call.result
    /\ DOMAIN call.result # {}

\* C3: constructed without pct_null_threshold, the instance stores and uses 0.95.
C3_DefaultIs095 ==
    (call.op = "__init__" /\ call.defaulted /\ call.raised = "") =>
        Threshold = DocumentedDefault

\* C4: with the threshold 0.0 fit selects exactly the columns holding at least
\* one null.
C4_ZeroDropsAnyNull ==
    (HasFit /\ Threshold = 0) =>
        Range(cols_to_drop) = {c \in Columns : \E i \in 1..Len(fitX[c]) : fitX[c][i] = NaN}

C4_Witness ==
    /\ HasFit /\ Threshold = 0 /\ call.op = "fit"
    /\ \E c \in Columns : Nulls(fitX, c) = 1 /\ Rows(fitX, c) = 2
                          /\ c \in Range(cols_to_drop)
    /\ \E c \in Columns : Nulls(fitX, c) = 0 /\ c \notin Range(cols_to_drop)

\* C5 as stated: with the threshold 1.0 fit selects exactly the columns in
\* which every value is null.
C5_OneDropsAllNull ==
    (HasFit /\ Threshold = 100) =>
        Range(cols_to_drop) = {c \in Columns : \A i \in 1..Len(fitX[c]) : fitX[c][i] = NaN}

\* C5 amended: with the threshold 1.0 fit selects exactly the columns that have
\* at least one row and in which every value is null; a column with a non-null
\* value is never selected.
C5_OneDropsAllNullOfRows ==
    (HasFit /\ Threshold = 100) =>
        Range(cols_to_drop) =
            {c \in Columns : /\ Len(fitX[c]) >= 1
                             /\ \A i \in 1..Len(fitX[c]) : fitX[c][i] = NaN}

C5_Witness ==
    /\ HasFit /\ Threshold = 100 /\ call.op = "fit"
    /\ \E c \in Columns : Nulls(fitX, c) = 2 /\ c \in Range(cols_to_drop)
    /\ \E c \in Columns : Nulls(fitX, c) = 1 /\ Rows(fitX, c) = 2
                          /\ c \notin Range(cols_to_drop)

\* C6: in a pipeline whose component_graph is a list the last component is an
\* estimator and every earlier one is a transformer.
C6_EstimatorLast ==
    is_list(pipeline.cls) =>
        LET g == component_graph(pipeline.cls) IN
        /\ Len(g) >= 1
        /\ g[Len(g)] \in Estimators
        /\ \A i \in 1..(Len(g) - 1) : g[i] \in Transformers
        /\ Len(fitted) = Len(g) => fitted[Len(fitted)] \in Estimators

C6_Witness ==
    /\ pipeline.cls = "CustomPipeline@442"
    /\ Len(fitted) = 5
    /\ fitted[5] = "Random Forest Classifier"

RECURSIVE ancestors(_, _)
\* the parents of k, their parents, and so on for n levels
ancestors(k, n) ==
    IF n = 0 THEN {}
    ELSE parents(k) \cup UNION {ancestors(p, n - 1) : p \in parents(k)}

\* C7: in the nonlinear graph every value starts with a component class and
\* goes on with parents that are keys, no component is its own ancestor, fit
\* reaches a component only after all of its parents, and 'Final Estimator'
\* is fitted last.
C7_ParentsFirst ==
    pipeline.cls = Nonlinear =>
        LET keys == DOMAIN nonlinear_graph IN
        /\ \A k \in keys : /\ Len(nonlinear_graph[k]) >= 1
                           /\ nonlinear_graph[k][1] \in Transformers \cup Estimators
                           /\ parents(k) \subseteq keys
                           /\ k \notin ancestors(k, Cardinality(keys))
        /\ \A i \in 1..Len(fitted) :
              parents(fitted[i]) \subseteq {fitted[j] : j \in 1..(i - 1)}
        /\ "Final Estimator" \in Fitted =>
              /\ Fitted = keys
              /\ fitted[Len(fitted)] = "Final Estimator"

C7_Witness ==
    /\ pipeline.cls = Nonlinear
    /\ fitted = <<"Imputer", "Encoder", "Elastic Net Clf", "Random Forest Clf",
                  "Final Estimator">>

\* C8: every top-level key of a pipeline's custom_hyperparameters and of the
\* parameters dictionary it was constructed with names a component of its
\* component_graph.
C8_KeysNameComponents ==
    /\ DOMAIN custom_hyperparameters(pipeline.cls) \subseteq component_names(pipeline.cls)
    /\ DOMAIN pipeline.parameters \subseteq component_names(pipeline.cls)

\* C9: fit replaces the stored column list by the selection on its own frame,
\* transform leaves the stored list and the parameters alone, and it removes
\* exactly the columns selected by the most recent fit, whatever the nulls of
\* the frame it is given, handing the other columns on unchanged.
C9_TransformUsesLastFit ==
    [][/\ call'.op = "fit" =>
            /\ Range(cols_to_drop') = AtLeast(call'.X, Threshold)
            /\ parameters' = parameters
       /\ call'.op = "transform" =>
            /\ cols_to_drop' = cols_to_drop
            /\ parameters' = parameters
            /\ call'.raised = "" =>
                  /\ HasFit
                  /\ DOMAIN call'.result = Columns \ AtLeast(fitX, Threshold)
                  /\ \A c \in DOMAIN call'.result : call'.result[c] = call'.X[c]]_vars

\* a transform after two fits, on a frame whose nulls sit in other columns
\* than those of the last fitted frame
C9_Witness ==
    /\ Transformed /\ HasFit
    /\ Threshold = 50
    /\ AtLeast(call.X, Threshold) # AtLeast(fitX, Threshold)
    /\ DOMAIN call.result = Columns \ AtLeast(fitX, Threshold)
    /\ DOMAIN call.result # Columns

\* C10: of two instances fitted on the same frame, the one with the higher
\* threshold selects a subset of what the one with the lower threshold selects.
C10_Monotone ==
    (call.op = "fit" /\ other.cols_to_drop # None
       /\ Threshold <= other.parameters.pct_null_threshold) =>
        Range(other.cols_to_drop) \subseteq Range(cols_to_drop)

C10_Witness ==
    /\ call.op = "fit" /\ other.cols_to_drop # None
    /\ Threshold = 0 /\ other.parameters.pct_null_threshold = 100
    /\ Range(other.cols_to_drop) # {}
    /\ Range(other.cols_to_drop) # Range(cols_to_drop)

TypeOK ==
    /\ parameters.pct_null_threshold \in 0..100
    /\ cols_to_drop = None \/ Range(cols_to_drop) \subseteq Columns
    /\ fitX = NoFrame \/ fitX \in AllFrames
====
